---- MODULE Spec2Model ----
(***************************************************************************)
(* Model of app.py: the streaming chat handler `respond`, the Clear        *)
(* History handler, and `generate_study_plan`.                             *)
(*                                                                         *)
(* Python values:                                                          *)
(*   - text is a TLA+ string;                                              *)
(*   - an optional value is a tuple of length 0 or 1: None is <<>> and a   *)
(*     present value x is <<x>>;                                           *)
(*   - a Turn (user_text, assistant_text) is <<user_text, optional text>>; *)
(*   - a Conversation is a sequence of Turns;                              *)
(*   - a Message is [role |-> text, content |-> optional text].            *)
(***************************************************************************)
EXTENDS Integers, Sequences, FiniteSets, TLC

(* ---------------------------- bounds ---------------------------------- *)

\* chat exchanges started in one session
MaxExchanges == 2
\* chunks one backend stream delivers before it ends or raises
MaxFrags == 2
\* backend calls made by the study plan handler in one session
MaxPlanCalls == 2

(* ------------------------- optional values ---------------------------- *)

None == <<>>

Some(x) == <<x>>

IsNone(o) == o = None

Val(o) == o[1]

(* ---------------------------- inputs ---------------------------------- *)

\* text the user types into the message box (respond copies it, never inspects it)
Messages == {"q"}

\* delta.content of one chunk: null, empty, or a piece of text
Tokens == {None, Some(""), Some("a"), Some("b")}

\* str(e) of an exception raised by the backend
Causes == {"timeout"}

\* the hidden system prompt textbox of the chat handler
SystemPrompt == "You are a helpful assistant for education and learning."

\* study plan form values (None: the widget was left unset)
Topics == {None, Some(""), Some("math")}
Levels == {None, Some("Beginner")}
Times == {None, Some(0), Some(5)}
Methods == {None, Some("Visual")}
Goals == {None, Some(""), Some("exam")}

\* message.content of a non-streaming completion
PlanTexts == {"plan"}

VARIABLES
    chatbot,        \* value of the gr.Chatbot component (the displayed Conversation)
    pc,             \* respond generator: "idle" | "streaming" | "done" | "error"
    message,        \* respond: parameter message
    caller_list,    \* the list object the caller passed as chat_history
    history0,       \* contents of that list when respond was called
    messages,       \* respond: local messages, as sent to the backend
    chat_history,   \* respond: local chat_history after line 26
    response,       \* respond: local response
    frags,          \* tokens the stream has delivered in this call, in order
    emitted,        \* snapshots yielded by this call, in order
    cause,          \* str(e) of the exception caught in this call, if any
    cleared,        \* a Clear History click was handled since the last Send click
    fed_error,      \* this call's chat_history is the final snapshot of a failed call
    exchanges,      \* number of Send clicks handled
    plan_args,      \* arguments of the last generate_study_plan call
    plan_output,    \* value of the plan_output textbox
    backend_calls,  \* chat_completion calls made by generate_study_plan
    calls_before    \* backend_calls when the last generate_study_plan call began

chatVars == <<chatbot, pc, message, caller_list, history0, messages, chat_history,
              response, frags, emitted, cause, cleared, fed_error, exchanges>>

planVars == <<plan_args, plan_output, backend_calls, calls_before>>

vars == <<chatVars, planVars>>

(* --------------------------- respond ---------------------------------- *)

Msg(role, content) == [role |-> role, content |-> content]

\* lines 20-22: two messages per prior Turn, in order
RECURSIVE HistoryMessages(_)
HistoryMessages(h) ==
    IF h = <<>> THEN <<>>
    ELSE <<Msg("user", Some(h[1][1])), Msg("assistant", h[1][2])>>
         \o HistoryMessages(Tail(h))

\* a plausible slip: assistant message placed before its user message
RECURSIVE HistoryMessagesSwapped(_)
HistoryMessagesSwapped(h) ==
    IF h = <<>> THEN <<>>
    ELSE <<Msg("assistant", h[1][2]), Msg("user", Some(h[1][1]))>>
         \o HistoryMessagesSwapped(Tail(h))

AssembleSwapped(system_prompt, h, m) ==
    <<Msg("system", Some(system_prompt))>>
    \o HistoryMessagesSwapped(h)
    \o <<Msg("user", Some(m))>>

\* lines 18-24
Assemble(system_prompt, h, m) ==
    <<Msg("system", Some(system_prompt))>>
    \o HistoryMessages(h)
    \o <<Msg("user", Some(m))>>

\* a plausible slip: the pending Turn is put in front of the history
PrependPending(h, m) == <<<<m, None>>>> \o h

\* line 26: a new list, the history followed by the pending Turn
AppendPending(h, m) == h \o <<<<m, None>>>>

\* line 37: `if token:` (None and "" are falsy)
Truthy(tok) == ~IsNone(tok) /\ Val(tok) # ""

\* a plausible slip: the buffer is overwritten instead of extended
Overwrite(resp, text) == text

\* line 38
Accumulate(resp, text) == resp \o text

\* line 39: chat_history[-1] = t
SetLast(h, t) == [h EXCEPT ![Len(h)] = t]

\* a plausible slip: the cause is left out of the diagnostic
ErrorTextNoCause(c) == "An error occurred: "

\* line 43: f"An error occurred: {str(e)}"
ErrorText(c) == "An error occurred: " \o c

\* line 43: a new list, the current list followed by one more Turn
AppendError(h, m, c) == h \o <<<<m, Some(ErrorText(c))>>>>

\* Send click (lines 185-192): respond runs lines 17-27 up to the backend call
Submit(m) ==
    /\ pc # "streaming"
    /\ exchanges < MaxExchanges
    /\ exchanges' = exchanges + 1
    /\ message' = m
    /\ caller_list' = chatbot
    /\ history0' = chatbot
    /\ messages' = Assemble(SystemPrompt, chatbot, m)
    /\ chat_history' = AppendPending(chatbot, m)
    /\ response' = ""
    /\ frags' = <<>>
    /\ emitted' = <<>>
    /\ cause' = None
    /\ cleared' = FALSE
    /\ fed_error' = (pc = "error" /\ emitted # <<>> /\ chatbot = emitted[Len(emitted)])
    /\ pc' = "streaming"
    /\ UNCHANGED <<chatbot, planVars>>

\* lines 29-40: the stream delivers one chunk
Chunk(tok) ==
    /\ pc = "streaming"
    /\ Len(frags) < MaxFrags
    /\ frags' = Append(frags, tok)
    /\ IF Truthy(tok)
       THEN /\ response' = Accumulate(response, Val(tok))
            /\ chat_history' = SetLast(chat_history, <<message, Some(response')>>)
            /\ emitted' = Append(emitted, chat_history')
            /\ chatbot' = chat_history'
       ELSE UNCHANGED <<response, chat_history, emitted, chatbot>>
    /\ UNCHANGED <<pc, message, caller_list, history0, messages, cause, cleared,
                   fed_error, exchanges, planVars>>

\* line 29: the stream ends; the generator returns without a further yield
StreamEnd ==
    /\ pc = "streaming"
    /\ pc' = "done"
    /\ UNCHANGED <<chatbot, message, caller_list, history0, messages, chat_history,
                   response, frags, emitted, cause, cleared, fed_error, exchanges,
                   planVars>>

\* lines 29, 42-44: the backend call or the stream raises; the handler yields once more
StreamRaise(c) ==
    /\ pc = "streaming"
    /\ cause' = Some(c)
    /\ chat_history' = AppendError(chat_history, message, c)
    /\ emitted' = Append(emitted, chat_history')
    /\ chatbot' = chat_history'
    /\ pc' = "error"
    /\ UNCHANGED <<message, caller_list, history0, messages, response, frags,
                   cleared, fed_error, exchanges, planVars>>

\* line 199: Clear History click; the Chatbot renders the returned None as no Turns.
\* The listener is not tied to the Send listener, so it may run while respond streams.
Clear ==
    /\ chatbot' = <<>>
    /\ cleared' = TRUE
    /\ UNCHANGED <<pc, message, caller_list, history0, messages, chat_history,
                   response, frags, emitted, cause, fed_error, exchanges, planVars>>

(* ---------------------- generate_study_plan --------------------------- *)

\* Python truthiness of a number field: None and 0 are falsy
TruthyNumber(o) == ~IsNone(o) /\ Val(o) # 0

\* a plausible slip: any() instead of all()
AnyFilled(topic, level, time, method, goal) ==
    Truthy(topic) \/ Truthy(level) \/ TruthyNumber(time) \/ Truthy(method) \/ Truthy(goal)

\* line 72: all([topic, level, time, method, goal])
AllFilled(topic, level, time, method, goal) ==
    Truthy(topic) /\ Truthy(level) /\ TruthyNumber(time) /\ Truthy(method) /\ Truthy(goal)

\* line 72, on the argument tuple
Accepted(args) == AllFilled(args[1], args[2], args[3], args[4], args[5])

\* line 106
PlanErrorText(c) == "Error generating plan: " \o c

\* lines 72-73: a field is missing, nothing is sent
PlanRejected(args) ==
    /\ ~Accepted(args)
    /\ plan_args' = Some(args)
    /\ calls_before' = backend_calls
    /\ plan_output' = "Please fill in all fields."
    /\ UNCHANGED <<backend_calls, chatVars>>

\* lines 75-104: the backend is called and answers
PlanReturned(args, text) ==
    /\ Accepted(args)
    /\ backend_calls < MaxPlanCalls
    /\ plan_args' = Some(args)
    /\ calls_before' = backend_calls
    /\ backend_calls' = backend_calls + 1
    /\ plan_output' = text
    /\ UNCHANGED chatVars

\* lines 97-106: the backend is called and raises
PlanFailed(args, c) ==
    /\ Accepted(args)
    /\ backend_calls < MaxPlanCalls
    /\ plan_args' = Some(args)
    /\ calls_before' = backend_calls
    /\ backend_calls' = backend_calls + 1
    /\ plan_output' = PlanErrorText(c)
    /\ UNCHANGED chatVars

PlanInputs == {<<t, l, h, m, g>> : t \in Topics, l \in Levels, h \in Times,
                                   m \in Methods, g \in Goals}

\* Create Study Plan click (lines 172-176)
GenerateStudyPlan ==
    \E args \in PlanInputs :
        \/ PlanRejected(args)
        \/ \E text \in PlanTexts : PlanReturned(args, text)
        \/ \E c \in Causes : PlanFailed(args, c)

(* ------------------------- specifications ----------------------------- *)

Init ==
    /\ chatbot = <<>>
    /\ pc = "idle"
    /\ message = ""
    /\ caller_list = <<>>
    /\ history0 = <<>>
    /\ messages = <<>>
    /\ chat_history = <<>>
    /\ response = ""
    /\ frags = <<>>
    /\ emitted = <<>>
    /\ cause = None
    /\ cleared = FALSE
    /\ fed_error = FALSE
    /\ exchanges = 0
    /\ plan_args = None
    /\ plan_output = ""
    /\ backend_calls = 0
    /\ calls_before = 0

SubmitClick == \E m \in Messages : Submit(m)

ChunkArrives == \E tok \in Tokens : Chunk(tok)

StreamFails == \E c \in Causes : StreamRaise(c)

Next ==
    \/ SubmitClick
    \/ ChunkArrives
    \/ StreamEnd
    \/ StreamFails
    \/ Clear

\* the chat panel
Spec == Init /\ [][Next]_vars

NextPlan == GenerateStudyPlan

\* the study plan panel
PlanSpec == Init /\ [][NextPlan]_vars

(* ----------------------------- claims --------------------------------- *)

LastOf(s) == s[Len(s)]

\* the truthy tokens of a stream, in order, as texts
RECURSIVE Texts(_)
Texts(fs) ==
    IF fs = <<>> THEN <<>>
    ELSE IF fs[1] # None /\ fs[1] # Some("") THEN <<fs[1][1]>> \o Texts(Tail(fs))
    ELSE Texts(Tail(fs))

\* the first i texts joined
RECURSIVE Joined(_, _)
Joined(ts, i) == IF i = 0 THEN "" ELSE Joined(ts, i - 1) \o ts[i]

Diagnostic == "An error occurred: " \o cause[1]

\* C1: while the stream has not raised, one snapshot has been emitted per non-empty
\* fragment and none for an empty or null one, and the i-th snapshot ends with the
\* Turn (message, first i non-empty fragments joined); so does the last one when
\* the stream has ended.
C1_SnapshotPerFragment ==
    pc \in {"streaming", "done"} =>
        /\ Len(emitted) = Len(Texts(frags))
        /\ \A i \in 1..Len(emitted) :
               LastOf(emitted[i]) = <<message, Some(Joined(Texts(frags), i))>>

\* C1 witness: a stream that ended after a skipped fragment and a non-empty one
C1_Witness ==
    /\ pc = "done"
    /\ Len(frags) = 2
    /\ Len(emitted) = 1
    /\ frags[1] \in {None, Some("")}

\* C2: after a raise that followed k non-empty fragments there are k non-error
\* snapshots, then exactly one snapshot whose last Turn carries the diagnostic
\* with the cause, and the generator delivers nothing further.
C2_ErrorAfterKFragments ==
    pc = "error" =>
        LET k == Len(Texts(frags)) IN
        /\ Len(emitted) = k + 1
        /\ \A i \in 1..k :
               LastOf(emitted[i]) = <<message, Some(Joined(Texts(frags), i))>>
        /\ LastOf(emitted[k + 1])[2] = Some(Diagnostic)
        /\ ~ENABLED ChunkArrives
        /\ ~ENABLED StreamEnd
        /\ ~ENABLED StreamFails

\* C2 witness: the stream raised after one non-empty fragment
C2_Witness ==
    /\ pc = "error"
    /\ Len(emitted) = 2
    /\ Len(frags) = 1

\* C3: the final snapshot of a failed exchange is the history passed in plus the
\* single Turn (message, diagnostic).
C3_ErrorInPendingTurn ==
    pc = "error" => LastOf(emitted) = history0 \o <<<<message, Some(Diagnostic)>>>>

\* C4: in every emitted snapshot only the last Turn may have an absent
\* assistant_text.
C4_OnlyLastTurnPending ==
    \A i \in 1..Len(emitted) :
        \A j \in 1..(Len(emitted[i]) - 1) : emitted[i][j][2] # None

\* C5: a call made with the final snapshot of a failed exchange sends no message
\* with absent content to the backend.
C5_UsableAfterError ==
    fed_error => \A i \in 1..Len(messages) : messages[i].content # None

\* C6: when the stream has ended without raising, the last emitted snapshot holds
\* the Turn of the new message with a present assistant_text.
C6_DoneResolvesTurn ==
    pc = "done" =>
        /\ emitted # <<>>
        /\ LastOf(LastOf(emitted))[1] = message
        /\ LastOf(LastOf(emitted))[2] # None

\* C7: for a history of n Turns the backend receives 2n + 2 messages: system, then
\* user and assistant of each prior Turn in order, then the new user message.
C7_MessageList ==
    pc # "idle" =>
        LET n == Len(history0) IN
        /\ Len(messages) = 2 * n + 2
        /\ messages[1] = [role |-> "system", content |-> Some(SystemPrompt)]
        /\ \A i \in 1..n :
               /\ messages[2 * i] = [role |-> "user", content |-> Some(history0[i][1])]
               /\ messages[2 * i + 1] = [role |-> "assistant", content |-> history0[i][2]]
        /\ messages[2 * n + 2] = [role |-> "user", content |-> Some(message)]

\* C7 witness: a call with two prior Turns
C7_Witness ==
    /\ pc = "streaming"
    /\ Len(history0) = 2
    /\ history0[1] # history0[2]

\* an empty or unset field of the study plan form
Blank(args) ==
    \/ \E i \in {1, 2, 4, 5} : args[i] = None \/ args[i] = Some("")
    \/ args[3] = None

\* C8: a study plan call with an empty or unset field returns the fixed text and
\* makes no backend call; a backend call is made only with all five fields filled.
C8_PlanNeedsAllFields ==
    plan_args # None =>
        /\ Blank(plan_args[1]) =>
               /\ plan_output = "Please fill in all fields."
               /\ backend_calls = calls_before
        /\ backend_calls # calls_before => ~Blank(plan_args[1])

\* C8 witness: a call with only the goal empty
C8_Witness ==
    /\ plan_args = Some(<<Some("math"), Some("Beginner"), Some(5), Some("Visual"), Some("")>>)
    /\ plan_output = "Please fill in all fields."
    /\ backend_calls = 1

\* C9: once a clear has been handled the displayed Conversation is empty until
\* the next exchange is started.
C9_ClearedStaysEmpty == cleared => chatbot = <<>>

\* C10: every snapshot of a call starts with the history passed in, unchanged, and
\* the caller's list still holds what it held at the call.
C10_Frame ==
    pc # "idle" =>
        /\ caller_list = history0
        /\ \A i \in 1..Len(emitted) :
               /\ Len(emitted[i]) > Len(history0)
               /\ SubSeq(emitted[i], 1, Len(history0)) = history0

\* C10 witness: a failed call on a non-empty history, after a streamed snapshot
C10_Witness ==
    /\ pc = "error"
    /\ Len(history0) >= 1
    /\ Len(emitted) = 2

====
